---- MODULE Spec2Model ----
(***************************************************************************)
(* The animal ETL pipeline: identifier pagination, per-record detail       *)
(* fetch, batching and posting, with the tenacity retry decorators, as     *)
(* implemented by etl/utils/etl_service.py (the Django service) and        *)
(* animal_etl.py (the standalone script).                                  *)
(*                                                                         *)
(* Every transport call (requests.get / requests.post) is one step; the    *)
(* code that runs between two transport calls belongs to the step of the   *)
(* call that precedes it.                                                  *)
(***************************************************************************)
EXTENDS Integers, Sequences, FiniteSets, TLC

(***************************************************************************)
(* Bounds of the model.                                                    *)
(***************************************************************************)
\* The largest identifier the source lists (identifiers are 1..MaxIds).
MaxIds == 3
\* The size limit of a posted batch. The source hard-codes 100
\* (etl_service.py:235, animal_etl.py:16 and :177); the model scales the
\* limit down so that full and oversized batches are reached.
MAX_BATCH_SIZE == 2
\* fetch_page_with_retry has no stop condition: the model offers a 5xx
\* answer for one page at most this many times in a row.
MaxPageAttempts == 2

(***************************************************************************)
(* Program constants.                                                      *)
(***************************************************************************)
\* stop=stop_after_attempt(5) of every capped retry decorator.
STOP_AFTER_ATTEMPT == 5

(***************************************************************************)
(* Transport responses and the exceptions of the program.                  *)
(***************************************************************************)
\* What one requests.get / requests.post call can come back with: a 2xx
\* answer, a timeout, a connection error, or an HTTP error status.
Responses == {"ok", "timeout", "connerr", "h404", "h4xx", "h5xx"}

\* Only get_animal_details tells a 404 from the other 4xx statuses: the model
\* answers the listing and the post requests with these.
OtherResponses == Responses \ {"h404"}

\* The exception requests raises for a response (raise_for_status for the
\* HTTP statuses), "None" for a 2xx answer.
TransportExc(r) ==
    CASE r = "ok"      -> "None"
      [] r = "timeout" -> "Timeout"
      [] r = "connerr" -> "ConnectionError"
      [] r = "h404"    -> "HTTPError_404"
      [] r = "h4xx"    -> "HTTPError_4xx"
      [] r = "h5xx"    -> "HTTPError_5xx"

\* requests' exception hierarchy: Timeout, ConnectionError and HTTPError are
\* RequestExceptions; ETLError, ValueError and tenacity's RetryError are not.
IsRequestException(e) ==
    e \in {"Timeout", "ConnectionError", "HTTPError_404", "HTTPError_4xx", "HTTPError_5xx"}

IsHTTPError(e) == e \in {"HTTPError_404", "HTTPError_4xx", "HTTPError_5xx"}

\* The class of an exception (type(e).__name__).
ExcClass(e) ==
    CASE IsHTTPError(e) -> "HTTPError"
      [] e \in {"ETLError_not_found", "ETLError_fetch", "ETLError_post",
                "ETLError_oversize", "ETLError_structure"} -> "ETLError"
      [] OTHER -> e

is_server_error(e) == e = "HTTPError_5xx"

(***************************************************************************)
(* The retry decorators (tenacity).                                        *)
(***************************************************************************)
\* A stop condition that lets one more attempt through.
stop_after_attempt_late(attempt) == attempt > STOP_AFTER_ATTEMPT

stop_after_attempt(attempt) == attempt >= STOP_AFTER_ATTEMPT

\* retry=retry_if_exception_type((RequestException, HTTPError))
retry_if_exception_type(e) == IsRequestException(e)

\* retry=retry_if_exception(is_server_error)
retry_if_server_error(e) == is_server_error(e)

\* What a decorated call does after one execution of its body, which raised
\* e ("None": it returned), on attempt number `attempt`: an exception the
\* predicate rejects is re-raised as it is; a retried one is tried again
\* unless the stop condition holds, and then tenacity raises RetryError
\* (the decorators do not set reraise=True).
Tenacity(e, attempt, retries, capped) ==
    IF e = "None" THEN [result |-> "return", exc |-> "None"]
    ELSE IF ~retries THEN [result |-> "raise", exc |-> e]
    ELSE IF capped /\ stop_after_attempt(attempt)
         THEN [result |-> "raise", exc |-> "RetryError"]
         ELSE [result |-> "retry", exc |-> "None"]

\* A body that raises the HTTPError of a 404 as it is.
get_animal_details_body_404_reraised(r) ==
    IF r = "ok" THEN "None"
    ELSE IF r = "connerr" THEN "ETLError_fetch" ELSE TransportExc(r)

\* The body of get_animal_details for one response.
get_animal_details_body(r) ==
    CASE r = "ok"      -> "None"
      [] r = "timeout" -> "Timeout"
      [] r = "h404"    -> "ETLError_not_found"
      [] r = "h5xx"    -> "HTTPError_5xx"
      [] r = "h4xx"    -> "HTTPError_4xx"
      [] r = "connerr" -> "ETLError_fetch"

\* The body of post_animals_batch, past the size check, for one response.
post_animals_batch_body(r) ==
    CASE r = "ok"      -> "None"
      [] r = "timeout" -> "Timeout"
      [] r \in {"h404", "h4xx", "h5xx"} -> TransportExc(r)
      [] r = "connerr" -> "ETLError_post"

get_animal_details(r, attempt) ==
    LET e == get_animal_details_body(r)
    IN  Tenacity(e, attempt, retry_if_exception_type(e), TRUE)

post_animals_batch(r, attempt) ==
    LET e == post_animals_batch_body(r)
    IN  Tenacity(e, attempt, retry_if_exception_type(e), TRUE)

\* fetch_page_with_retry: the body has no handler, and there is no stop.
fetch_page_with_retry(r, attempt) ==
    LET e == TransportExc(r)
    IN  Tenacity(e, attempt, retry_if_server_error(e), FALSE)

(***************************************************************************)
(* State.                                                                  *)
(***************************************************************************)
VARIABLES
    pages,          \* the source listing: page p of it is pages[p]
    batch_size,     \* run_etl_process(batch_size)
    pc,             \* where the run is: the transport call it makes next
    etl_stats,      \* etl_service.etl_stats, the module-level ETLStats
    etl_log,        \* the run's ETLProcessingLog row
    stats,          \* animal_etl: the ETLStats of run_etl_process
    animal_ids,     \* fetch_paginated_animals / fetch_all_animal_ids: animal_ids
    page,           \* ... page
    total_pages,    \* ... total_pages ({} is None, {n} is n)
    fp_attempt,     \* attempt number of the decorated fetch_paginated_animals
    attempt,        \* attempts made so far by the decorated call in progress
    all_ids,        \* run_etl_process: all_ids (animal_etl: animal_ids)
    idx,            \* run_etl_process: idx (animal_etl: i)
    posting_batch,  \* run_etl_process: posting_batch (animal_etl: batch)
    db_batch,       \* run_etl_process: db_batch
    sink,           \* the batches the sink endpoint answered with 2xx, in order
    db,             \* api_ids of the Animal rows
    api_error_log,  \* the APIErrorLog rows
    last,           \* the latest decorated call's latest attempt, as observed
    last_ids,       \* the same of the decorated fetch_paginated_animals
    processed,      \* the ids of the records counted in animals_processed
    failed_posts,   \* the number of calls of post_animals_batch that raised
    job             \* ETLRunView: the ETLProcessingLog row of the job

vars == <<pages, batch_size, pc, etl_stats, etl_log, stats, animal_ids, page,
          total_pages, fp_attempt, attempt, all_ids, idx, posting_batch,
          db_batch, sink, db, api_error_log, last, last_ids, processed,
          failed_posts, job>>

\* A listing page whose items carry the given ids; total_pages absent ({})
\* or present ({n}).
Page(ids, total) == [items |-> ids, total_pages |-> total]

\* The answer of the listing endpoint for page p: past the last listed page
\* the items are empty.
ServerPage(p) ==
    IF p \in 1..Len(pages) THEN pages[p] ELSE Page(<<>>, {})

\* The listings of the model: one page with identifiers 1..n that names
\* itself the last page, for n up to MaxIds (none at all for n = 0), and a
\* listing of two pages without total_pages whose pages repeat an identifier.
Listing(n) == IF n = 0 THEN <<>> ELSE <<Page([i \in 1..n |-> i], {1})>>

Listings ==
    {Listing(n) : n \in 0..MaxIds}
        \cup {<<Page(<<1, 2>>, {}), Page(<<2, 1>>, {})>>}

\* The batch_size arguments of the model: 0 (as any value below 1, every
\* record is flushed alone), the sizes the limit allows, and one above it.
BatchSizes == 0..(MAX_BATCH_SIZE + 1)

\* ETLStats.reset
reset ==
    [total_animals_found |-> 0, animals_processed |-> 0, animals_posted |-> 0,
     batches_posted |-> 0, errors |-> <<>>, end_time |-> "None",
     current_step |-> "Initializing"]

\* A run that leaves the statistics as it finds them.
after_reset_skipped(st) == st

\* Line 314, etl_stats.reset(): the statistics object st after it.
after_reset(st) == reset

\* ETLStats.add_error: the entry names what failed (a page, an animal, the
\* process) and carries the exception's text.
add_error(st, scope, id, e) ==
    [st EXCEPT !.errors = Append(@, [scope |-> scope, id |-> id, exc |-> e])]

\* ETLStats.complete
complete(st) == [st EXCEPT !.end_time = "set", !.current_step = "Completed"]

\* animal_etl.ETLStats.__init__
ETLStats ==
    [animals_found |-> 0, animals_processed |-> 0, animals_posted |-> 0,
     batches_posted |-> 0, errors |-> <<>>]

NoCall == [op |-> "none", arg |-> 0, attempt |-> 0, response |-> "none",
           result |-> "none", exc |-> "None", body_exc |-> "None"]

\* What is observed of one attempt of a decorated call: the operation and its
\* argument (page number, animal id, batch length), the attempt number (0: the
\* transport was not called), the transport's response, the exception the body
\* raised, and what the decorator did with it.
Call(op, arg, n, r, body_exc, t) ==
    [op |-> op, arg |-> arg, attempt |-> n, response |-> r,
     result |-> t.result, exc |-> t.exc, body_exc |-> body_exc]

\* list(set(ids)): the distinct ids; the model lists them in ascending order.
RECURSIVE Ascending(_)
Ascending(S) ==
    IF S = {} THEN <<>>
    ELSE LET m == CHOOSE x \in S : \A y \in S : x <= y
         IN  <<m>> \o Ascending(S \ {m})

Range(seq) == {seq[i] : i \in 1..Len(seq)}

\* The list as it is, repeated ids included.
list_keeps_duplicates(ids) == ids

list_set(ids) == Ascending(Range(ids))

Init ==
    /\ pages \in Listings
    /\ batch_size \in BatchSizes
    /\ pc = "idle"
    /\ etl_stats = reset
    /\ etl_log = [status |-> "none", total_animals_fetched |-> 0,
                  total_animals_processed |-> 0, total_animals_sent |-> 0]
    /\ stats = ETLStats
    /\ animal_ids = <<>>
    /\ page = 1
    /\ total_pages = {}
    /\ fp_attempt = 0
    /\ attempt = 0
    /\ all_ids = <<>>
    /\ idx = 0
    /\ posting_batch = <<>>
    /\ db_batch = <<>>
    /\ sink = <<>>
    /\ db = {}
    /\ api_error_log = <<>>
    /\ last = NoCall
    /\ last_ids = NoCall
    /\ processed = {}
    /\ failed_posts = 0
    /\ job = [status |-> "none"]

(***************************************************************************)
(* etl_service.run_etl_process: how a run ends.                            *)
(***************************************************************************)
\* views.py, lines 46-54: ETLRunView.run_etl_background sets the status of
\* its job from the statistics run_etl_process returned.
run_etl_background(st) ==
    [status |-> IF st.current_step = "Completed" THEN "completed" ELSE "failed"]

\* Lines 400-406: the totals of the ETLProcessingLog row; the run returns
\* to the view that started it.
Finish(st, status) ==
    /\ etl_stats' = st
    /\ etl_log' = [etl_log EXCEPT !.status = status,
                                  !.total_animals_processed = st.animals_processed,
                                  !.total_animals_sent = st.animals_posted]
    /\ job' = run_etl_background(st)
    /\ pc' = "done"

\* Lines 388-392: the loop and the final flush are through.
Completed(st) ==
    LET c == complete(st)
    IN  Finish(c, IF c.errors = <<>> THEN "completed" ELSE "partial")

\* An outer handler that starts the statistics afresh.
Failed_stats_reset(st, e) ==
    Finish([add_error(reset, "process", 0, e) EXCEPT !.current_step = "Failed"],
           "failed")

\* An outer handler that does not record the exception.
Failed_unrecorded(st, e) ==
    Finish([st EXCEPT !.current_step = "Failed"], "failed")

\* Lines 394-398: the outer handler of run_etl_process.
Failed(st, e) ==
    Finish([add_error(st, "process", 0, e) EXCEPT !.current_step = "Failed"],
           "failed")

(***************************************************************************)
(* etl_service: the identifier fetch.                                      *)
(***************************************************************************)
\* The number of identifiers the listing names.
Listed == Cardinality(UNION {Range(pages[p].items) : p \in 1..Len(pages)})

\* A listing request is answered with an error that fetch_paginated_animals
\* is restarted for only when the listing names at most one identifier; then
\* it is on any attempt of the decorator.
ListingFaultOffered == Listed <= 1

\* Lines 314-321 and 82-87: the run starts, and fetch_paginated_animals is
\* entered for the first time.
RunStart ==
    /\ pc = "idle"
    /\ etl_stats' = [after_reset(etl_stats) EXCEPT
                        !.current_step = "Fetching animal list"]
    /\ etl_log' = [status |-> "running", total_animals_fetched |-> 0,
                   total_animals_processed |-> 0, total_animals_sent |-> 0]
    /\ job' = [status |-> "running"]
    /\ fp_attempt' = 1
    /\ animal_ids' = <<>>
    /\ page' = 1
    /\ total_pages' = {}
    /\ attempt' = 0
    /\ pc' = "fetch_page"
    /\ UNCHANGED <<pages, batch_size, stats, all_ids, idx, posting_batch,
                   db_batch, sink, db, api_error_log, last, last_ids, processed,
          failed_posts>>
    /\ UNCHANGED <<last_ids, processed, failed_posts>>

\* fetch_page_with_retry answers 5xx: its own decorator tries the page again.
FetchPageRetry ==
    /\ pc = "fetch_page"
    /\ attempt < MaxPageAttempts
    /\ LET t == fetch_page_with_retry("h5xx", attempt + 1)
       IN  /\ t.result = "retry"
           /\ attempt' = attempt + 1
           /\ last' = Call("page", page, attempt + 1, "h5xx", TransportExc("h5xx"), t)
    /\ UNCHANGED <<pages, batch_size, pc, etl_stats, etl_log, job, stats, animal_ids,
                   page, total_pages, fp_attempt, all_ids, idx, posting_batch,
                   db_batch, sink, db, api_error_log>>
    /\ UNCHANGED <<last_ids, processed, failed_posts>>

\* Lines 114-117 and the decorator of fetch_paginated_animals (72-76): the body
\* raised e while fetching `page`, the transport having answered r; the error
\* is logged, and the decorator either runs the body again from page 1 or
\* raises to run_etl_process.
PaginationRaises(r, e) ==
    LET st == add_error(etl_stats, "page", page, e)
        o  == Tenacity(e, fp_attempt, retry_if_exception_type(e), TRUE)
    IN  /\ last' = Call("page", page, attempt + 1, r, TransportExc(r),
                        fetch_page_with_retry(r, attempt + 1))
        /\ last_ids' = Call("ids", page, fp_attempt, r, e, o)
        /\ IF o.result = "retry"
           THEN /\ fp_attempt' = fp_attempt + 1
                /\ animal_ids' = <<>>
                /\ page' = 1
                /\ total_pages' = {}
                /\ attempt' = 0
                /\ etl_stats' = [st EXCEPT !.current_step = "Fetching animal list"]
                /\ UNCHANGED <<pc, etl_log, job>>
           ELSE /\ Failed(st, o.exc)
                /\ attempt' = 0
                /\ UNCHANGED <<fp_attempt, animal_ids, page, total_pages>>
        /\ UNCHANGED <<pages, batch_size, stats, all_ids, idx, posting_batch,
                       db_batch, sink, db, api_error_log, processed, failed_posts>>

\* The listing request fails with an error fetch_page_with_retry does not
\* retry (a timeout, a connection error, a 4xx status): it raises it.
FetchPageFails ==
    /\ pc = "fetch_page"
    /\ ListingFaultOffered
    /\ \E r \in {"timeout", "connerr", "h4xx"} :
          LET t == fetch_page_with_retry(r, attempt + 1)
          IN  /\ t.result = "raise"
              /\ PaginationRaises(r, t.exc)

\* Lines 93 and 111-112: the answer is no mapping with an "items" key.
FetchPageMalformed ==
    /\ pc = "fetch_page"
    /\ PaginationRaises("ok", "ETLError_structure")

\* Lines 93-110: a page with items that is not the last one.
\* Lines 97-98, 107-108, 119-122 and 321-338: the page is empty or the last
\* one; fetch_paginated_animals returns and run_etl_process enters its loop,
\* or returns at once when no identifier was found.
FetchPageOk ==
    /\ pc = "fetch_page"
    /\ LET data == ServerPage(page)
           tp   == IF data.total_pages = {} THEN total_pages ELSE data.total_pages
           ids  == IF data.items = <<>> THEN animal_ids ELSE animal_ids \o data.items
           stop == \/ data.items = <<>>
                   \/ tp # {} /\ tp # {0} /\ \A n \in tp : page >= n
           unique_ids == list_set(ids)
           found == [etl_stats EXCEPT !.total_animals_found = Len(unique_ids)]
       IN  /\ last' = Call("page", page, attempt + 1, "ok", "None",
                           fetch_page_with_retry("ok", attempt + 1))
           /\ attempt' = 0
           /\ animal_ids' = ids
           /\ total_pages' = tp
           /\ IF ~stop
              THEN /\ page' = page + 1
                   /\ UNCHANGED <<pc, etl_stats, etl_log, job, all_ids, idx>>
              ELSE /\ page' = page
                   /\ all_ids' = unique_ids
                   /\ IF unique_ids = <<>>
                      THEN /\ etl_stats' = [found EXCEPT !.current_step = "No data found"]
                           /\ etl_log' = [etl_log EXCEPT !.status = "completed"]
                           /\ job' = run_etl_background(etl_stats')
                           /\ pc' = "done"
                           /\ idx' = idx
                      ELSE /\ etl_stats' = [found EXCEPT !.current_step = "Processing animals"]
                           /\ etl_log' = [etl_log EXCEPT
                                             !.total_animals_fetched = Len(unique_ids)]
                           /\ job' = job
                           /\ pc' = "get_animal_details"
                           /\ idx' = 1
    /\ posting_batch' = <<>>
    /\ db_batch' = <<>>
    /\ UNCHANGED <<pages, batch_size, stats, fp_attempt, sink, db, api_error_log>>
    /\ UNCHANGED <<last_ids, processed, failed_posts>>

(***************************************************************************)
(* etl_service.run_etl_process: the loop over all_ids.                     *)
(***************************************************************************)
\* An inline flush that waits for one record more.
flush_due_late(batch) == Len(batch) > batch_size

\* Line 352: the inline flush is due.
flush_due(batch) == Len(batch) >= batch_size

\* A run_etl_process without the flush after the loop.
final_flush_skipped(batch) == FALSE

\* Line 383: the final flush is due.
final_flush_due(batch) == batch # <<>>

\* A size check that already rejects a batch of the maximum size.
exceeds_maximum_off_by_one(batch) == Len(batch) >= MAX_BATCH_SIZE

\* A size check that lets a batch of one record too many through.
exceeds_maximum_one_late(batch) == Len(batch) > MAX_BATCH_SIZE + 1

\* Lines 235-236: the size check of post_animals_batch.
exceeds_maximum(batch) == Len(batch) > MAX_BATCH_SIZE

\* A loop with the ETLError handler alone.
caught_in_loop_ETLError_only(e) == ExcClass(e) = "ETLError"

\* Lines 366 and 374: the handlers inside the loop catch ETLError and every
\* other Exception.
caught_in_loop(e) == TRUE

\* Lines 366-381: the two handlers of the loop do the same: an error entry
\* and an APIErrorLog row for the animal.
record_error(st, k, e) == add_error(st, "animal", k, e)

error_event(log, k, e) ==
    Append(log, [endpoint |-> k, error_type |-> ExcClass(e)])

\* The loop is through with all_ids[idx]: it takes the next identifier, or
\* ends (lines 383-392): the final flush if records are buffered, else the
\* run is Completed.
NextRecord(st, batch) ==
    /\ idx' = idx + 1
    /\ attempt' = 0
    /\ posting_batch' = batch
    /\ db_batch' = batch
    /\ IF idx < Len(all_ids)
       THEN /\ pc' = "get_animal_details"
            /\ etl_stats' = st
            /\ etl_log' = etl_log
            /\ job' = job
       ELSE IF final_flush_due(batch)
            THEN /\ pc' = "post_final"
                 /\ etl_stats' = [st EXCEPT !.current_step = "Posting final batch"]
                 /\ etl_log' = etl_log
                 /\ job' = job
            ELSE Completed(st)

\* Handlers that give the buffered records up.
posting_batch_after_raise_cleared(batch) == <<>>

\* Lines 341-366: an exception leaves the try block before lines 360-361,
\* and the handlers do not assign posting_batch: it is what it was.
posting_batch_after_raise(batch) == batch

\* An exception e reaches the handlers of the loop while all_ids[idx] is
\* processed: it is recorded against that animal and the loop goes on with
\* the batches as they are; an exception they do not catch ends the run.
RaisedInLoop(st, e) ==
    LET k == all_ids[idx]
    IN  IF caught_in_loop(e)
        THEN /\ NextRecord(record_error(st, k, e),
                           posting_batch_after_raise(posting_batch))
             /\ api_error_log' = error_event(api_error_log, k, e)
        ELSE /\ Failed(st, e)
             /\ UNCHANGED <<idx, posting_batch, db_batch, api_error_log>>
             /\ attempt' = 0

\* get_animal_details: an attempt fails and the decorator tries again.
DetailRetry ==
    /\ pc = "get_animal_details"
    /\ \E r \in Responses :
          LET t == get_animal_details(r, attempt + 1)
          IN  /\ t.result = "retry"
              /\ last' = Call("detail", all_ids[idx], attempt + 1, r,
                              get_animal_details_body(r), t)
    /\ attempt' = attempt + 1
    /\ UNCHANGED <<pages, batch_size, pc, etl_stats, etl_log, job, stats, animal_ids,
                   page, total_pages, fp_attempt, all_ids, idx, posting_batch,
                   db_batch, sink, db, api_error_log>>
    /\ UNCHANGED <<last_ids, processed, failed_posts>>

\* get_animal_details raises to the loop (lines 366-381).
DetailFails ==
    /\ pc = "get_animal_details"
    /\ \E r \in Responses :
          LET t == get_animal_details(r, attempt + 1)
          IN  /\ t.result = "raise"
              /\ last' = Call("detail", all_ids[idx], attempt + 1, r,
                              get_animal_details_body(r), t)
              /\ RaisedInLoop(etl_stats, t.exc)
    /\ UNCHANGED <<pages, batch_size, stats, animal_ids, page, total_pages,
                   fp_attempt, all_ids, sink, db>>
    /\ UNCHANGED <<last_ids, processed, failed_posts>>

\* Lines 342-355: the details arrive; the record is transformed, buffered and
\* counted, and the inline flush starts when the batch is full.
DetailOk ==
    /\ pc = "get_animal_details"
    /\ LET k  == all_ids[idx]
           t  == get_animal_details("ok", attempt + 1)
           pb == Append(posting_batch, k)
           st == [etl_stats EXCEPT !.animals_processed = @ + 1]
       IN  /\ t.result = "return"
           /\ last' = Call("detail", k, attempt + 1, "ok", "None", t)
           /\ IF flush_due(pb)
              THEN /\ pc' = "post_inline"
                   /\ etl_stats' = [st EXCEPT !.current_step = "Posting batch"]
                   /\ posting_batch' = pb
                   /\ db_batch' = pb
                   /\ attempt' = 0
                   /\ UNCHANGED <<etl_log, job, idx>>
              ELSE NextRecord(st, pb)
    /\ UNCHANGED <<pages, batch_size, stats, animal_ids, page, total_pages,
                   fp_attempt, all_ids, sink, db, api_error_log>>
    /\ processed' = processed \cup {all_ids[idx]}
    /\ UNCHANGED <<last_ids, failed_posts>>

(***************************************************************************)
(* etl_service: the flush (post_animals_batch, then save_animals_to_db).   *)
(***************************************************************************)
Flushing == pc \in {"post_inline", "post_final"}

\* post_animals_batch raises e to run_etl_process: inside the loop (line 356)
\* the handlers of the loop get it, after the loop (line 385) the outer one.
FlushRaises(st, e) ==
    IF pc = "post_inline"
    THEN RaisedInLoop(st, e)
    ELSE /\ Failed(st, e)
         /\ attempt' = 0
         /\ UNCHANGED <<idx, posting_batch, db_batch, api_error_log>>

\* Counters that grow before raise_for_status has looked at the answer.
post_animals_batch_stats_counted_early(st, batch, r) ==
    [st EXCEPT !.batches_posted = @ + 1, !.animals_posted = @ + Len(batch)]

\* Lines 239-250: the statistics after one attempt of post_animals_batch
\* that the transport answered r: the counters grow (247-248) when neither
\* requests.post nor raise_for_status raised.
post_animals_batch_stats(st, batch, r) ==
    IF post_animals_batch_body(r) = "None"
    THEN [st EXCEPT !.batches_posted = @ + 1, !.animals_posted = @ + Len(batch)]
    ELSE st

\* Lines 235-236: the batch is too large; the transport is not called.
PostRejected ==
    /\ Flushing
    /\ exceeds_maximum(posting_batch)
    /\ LET e == "ETLError_oversize"
           t == Tenacity(e, 1, retry_if_exception_type(e), TRUE)
       IN  /\ last' = Call("post", Len(posting_batch), 0, "none", e, t)
           /\ FlushRaises(etl_stats, t.exc)
    /\ UNCHANGED <<pages, batch_size, stats, animal_ids, page, total_pages,
                   fp_attempt, all_ids, sink, db>>
    /\ failed_posts' = failed_posts + 1
    /\ UNCHANGED <<last_ids, processed>>

\* An attempt to post fails and the decorator tries again.
PostRetry ==
    /\ Flushing
    /\ ~exceeds_maximum(posting_batch)
    /\ \E r \in OtherResponses :
          LET t == post_animals_batch(r, attempt + 1)
          IN  /\ t.result = "retry"
              /\ last' = Call("post", Len(posting_batch), attempt + 1, r,
                              post_animals_batch_body(r), t)
              /\ etl_stats' = post_animals_batch_stats(etl_stats, posting_batch, r)
    /\ attempt' = attempt + 1
    /\ UNCHANGED <<pages, batch_size, pc, etl_log, job, stats, animal_ids,
                   page, total_pages, fp_attempt, all_ids, idx, posting_batch,
                   db_batch, sink, db, api_error_log>>
    /\ UNCHANGED <<last_ids, processed, failed_posts>>

\* post_animals_batch raises to run_etl_process.
PostFails ==
    /\ Flushing
    /\ ~exceeds_maximum(posting_batch)
    /\ \E r \in OtherResponses :
          LET t == post_animals_batch(r, attempt + 1)
          IN  /\ t.result = "raise"
              /\ last' = Call("post", Len(posting_batch), attempt + 1, r,
                              post_animals_batch_body(r), t)
              /\ FlushRaises(post_animals_batch_stats(etl_stats, posting_batch, r),
                             t.exc)
    /\ UNCHANGED <<pages, batch_size, stats, animal_ids, page, total_pages,
                   fp_attempt, all_ids, sink, db>>
    /\ failed_posts' = failed_posts + 1
    /\ UNCHANGED <<last_ids, processed>>

\* Lines 246-250, then 358-361 or 386: the sink accepts the batch and the
\* counters grow; save_animals_to_db stores the records and the batches are
\* cleared (inline) or the run is Completed (final).
PostOk ==
    /\ Flushing
    /\ ~exceeds_maximum(posting_batch)
    /\ LET t  == post_animals_batch("ok", attempt + 1)
           st == post_animals_batch_stats(etl_stats, posting_batch, "ok")
       IN  /\ t.result = "return"
           /\ last' = Call("post", Len(posting_batch), attempt + 1, "ok", "None", t)
           /\ sink' = Append(sink, posting_batch)
           /\ db' = db \cup Range(db_batch)
           /\ IF pc = "post_inline"
              THEN NextRecord(st, <<>>)
              ELSE /\ Completed(st)
                   /\ attempt' = 0
                   /\ UNCHANGED <<idx, posting_batch, db_batch>>
    /\ UNCHANGED <<pages, batch_size, stats, animal_ids, page, total_pages,
                   fp_attempt, all_ids, api_error_log>>
    /\ UNCHANGED <<last_ids, processed, failed_posts>>

\* As PostOk, but save_animals_to_db raises (a record without "id", line 275,
\* or a database error): the batch was posted and stays buffered.
PostOkSaveFails ==
    /\ Flushing
    /\ ~exceeds_maximum(posting_batch)
    /\ LET t  == post_animals_batch("ok", attempt + 1)
           st == post_animals_batch_stats(etl_stats, posting_batch, "ok")
       IN  /\ t.result = "return"
           /\ last' = Call("post", Len(posting_batch), attempt + 1, "ok", "None", t)
           /\ sink' = Append(sink, posting_batch)
           /\ FlushRaises(st, "SaveError")
    /\ UNCHANGED <<pages, batch_size, stats, animal_ids, page, total_pages,
                   fp_attempt, all_ids, db>>
    /\ UNCHANGED <<last_ids, processed, failed_posts>>

Next ==
    \/ RunStart
    \/ FetchPageRetry
    \/ FetchPageFails
    \/ FetchPageMalformed
    \/ FetchPageOk
    \/ DetailRetry
    \/ DetailFails
    \/ DetailOk
    \/ PostRejected
    \/ PostRetry
    \/ PostFails
    \/ PostOk
    \/ PostOkSaveFails

Spec == Init /\ [][Next]_vars

(***************************************************************************)
(* animal_etl.py: the standalone pipeline. It uses the variables of the    *)
(* service run that have a counterpart (animal_ids, page, all_ids for the  *)
(* animal_ids of run_etl_process, idx for i, posting_batch for batch) and  *)
(* its own statistics, stats.                                              *)
(***************************************************************************)
\* BATCH_SIZE = 100 (line 16), scaled as the limit of post_animals_batch.
BATCH_SIZE == MAX_BATCH_SIZE

\* fetch_animals_page, fetch_animal_details and post_animals_batch of
\* animal_etl.py: the handlers of the bodies re-raise what requests raised,
\* and the decorators retry every RequestException, at most 5 attempts.
ae_request(r, n) ==
    LET e == TransportExc(r)
    IN  Tenacity(e, n, retry_if_exception_type(e), TRUE)

\* animal_etl.ETLStats.add_error
ae_add_error(st, scope, id, e) ==
    [st EXCEPT !.errors = Append(@, [scope |-> scope, id |-> id, exc |-> e])]

\* Line 224: the flush is due.
ae_flush_due(batch, i) == Len(batch) >= BATCH_SIZE \/ i = Len(all_ids)

\* Lines 177-178: the size check of post_animals_batch.
ae_exceeds_maximum(batch) == Len(batch) > MAX_BATCH_SIZE

InitAE ==
    /\ pages \in Listings
    /\ batch_size = BATCH_SIZE
    /\ pc = "ae_idle"
    /\ etl_stats = reset
    /\ etl_log = [status |-> "none", total_animals_fetched |-> 0,
                  total_animals_processed |-> 0, total_animals_sent |-> 0]
    /\ stats = ETLStats
    /\ animal_ids = <<>>
    /\ page = 1
    /\ total_pages = {}
    /\ fp_attempt = 0
    /\ attempt = 0
    /\ all_ids = <<>>
    /\ idx = 0
    /\ posting_batch = <<>>
    /\ db_batch = <<>>
    /\ sink = <<>>
    /\ db = {}
    /\ api_error_log = <<>>
    /\ last = NoCall
    /\ last_ids = NoCall
    /\ processed = {}
    /\ failed_posts = 0
    /\ job = [status |-> "none"]

AEFrame == <<pages, batch_size, etl_stats, etl_log, job, total_pages, fp_attempt,
             db_batch, db, api_error_log>>

\* Lines 203-207 and 76-78: the run starts with fetch_all_animal_ids.
AE_Start ==
    /\ pc = "ae_idle"
    /\ stats' = ETLStats
    /\ animal_ids' = <<>>
    /\ page' = 1
    /\ attempt' = 0
    /\ pc' = "ae_fetch_page"
    /\ UNCHANGED <<AEFrame, all_ids, idx, posting_batch, sink, last>>
    /\ UNCHANGED <<last_ids, processed, failed_posts>>

\* fetch_animals_page: an attempt fails and the decorator tries again.
AE_FetchPageRetry ==
    /\ pc = "ae_fetch_page"
    /\ \E r \in OtherResponses :
          LET t == ae_request(r, attempt + 1)
          IN  /\ t.result = "retry"
              /\ last' = Call("page", page, attempt + 1, r, TransportExc(r), t)
    /\ attempt' = attempt + 1
    /\ UNCHANGED <<AEFrame, pc, stats, animal_ids, page, all_ids, idx,
                   posting_batch, sink>>
    /\ UNCHANGED <<last_ids, processed, failed_posts>>

\* Lines 98-100 and 245-250: fetch_animals_page raises; fetch_all_animal_ids
\* raises it on, and the outer handler of run_etl_process ends the run.
AE_FetchPageFails ==
    /\ pc = "ae_fetch_page"
    /\ \E r \in OtherResponses :
          LET t == ae_request(r, attempt + 1)
          IN  /\ t.result = "raise"
              /\ last' = Call("page", page, attempt + 1, r, TransportExc(r), t)
              /\ stats' = ae_add_error(stats, "process", 0, t.exc)
    /\ attempt' = 0
    /\ pc' = "ae_done"
    /\ UNCHANGED <<AEFrame, animal_ids, page, all_ids, idx, posting_batch, sink>>
    /\ UNCHANGED <<last_ids, processed, failed_posts>>

\* Lines 82-96 and 102-214: a page arrives; pagination goes on, or it ends and
\* run_etl_process enters its loop (or returns: no identifier was found).
AE_FetchPageOk ==
    /\ pc = "ae_fetch_page"
    /\ LET data == ServerPage(page)
           ids  == IF data.items = <<>> THEN animal_ids ELSE animal_ids \o data.items
           stop == \/ data.items = <<>>
                   \/ /\ data.total_pages # {}
                      /\ data.total_pages # {0}
                      /\ \A n \in data.total_pages : page >= n
           unique_ids == list_set(ids)
       IN  /\ last' = Call("page", page, attempt + 1, "ok", "None",
                           ae_request("ok", attempt + 1))
           /\ attempt' = 0
           /\ animal_ids' = ids
           /\ IF ~stop
              THEN /\ page' = page + 1
                   /\ UNCHANGED <<pc, stats, all_ids, idx>>
              ELSE /\ page' = page
                   /\ all_ids' = unique_ids
                   /\ stats' = [stats EXCEPT !.animals_found = Len(unique_ids)]
                   /\ IF unique_ids = <<>>
                      THEN pc' = "ae_done" /\ idx' = idx
                      ELSE pc' = "ae_fetch_details" /\ idx' = 1
    /\ posting_batch' = <<>>
    /\ UNCHANGED <<AEFrame, sink>>
    /\ UNCHANGED <<last_ids, processed, failed_posts>>

\* The loop is through with animal_ids[i]: the next identifier, or the end
\* of the loop (lines 238-250), where run_etl_process returns.
AE_NextRecord(st, batch) ==
    /\ idx' = idx + 1
    /\ attempt' = 0
    /\ posting_batch' = batch
    /\ stats' = st
    /\ pc' = IF idx < Len(all_ids) THEN "ae_fetch_details" ELSE "ae_done"

\* Lines 233-236: the handler of the loop.
AE_RaisedInLoop(e) ==
    AE_NextRecord(ae_add_error(stats, "animal", all_ids[idx], e), posting_batch)

AE_DetailRetry ==
    /\ pc = "ae_fetch_details"
    /\ \E r \in Responses :
          LET t == ae_request(r, attempt + 1)
          IN  /\ t.result = "retry"
              /\ last' = Call("detail", all_ids[idx], attempt + 1, r, TransportExc(r), t)
    /\ attempt' = attempt + 1
    /\ UNCHANGED <<AEFrame, pc, stats, animal_ids, page, all_ids, idx,
                   posting_batch, sink>>
    /\ UNCHANGED <<last_ids, processed, failed_posts>>

AE_DetailFails ==
    /\ pc = "ae_fetch_details"
    /\ \E r \in Responses :
          LET t == ae_request(r, attempt + 1)
          IN  /\ t.result = "raise"
              /\ last' = Call("detail", all_ids[idx], attempt + 1, r, TransportExc(r), t)
              /\ AE_RaisedInLoop(t.exc)
    /\ UNCHANGED <<AEFrame, animal_ids, page, all_ids, sink>>
    /\ UNCHANGED <<last_ids, processed, failed_posts>>

\* Lines 218-224: the details arrive; the record is transformed, buffered and
\* counted; the batch is posted when it is full or the identifier is the last.
AE_DetailOk ==
    /\ pc = "ae_fetch_details"
    /\ LET t  == ae_request("ok", attempt + 1)
           b  == Append(posting_batch, all_ids[idx])
           st == [stats EXCEPT !.animals_processed = @ + 1]
       IN  /\ last' = Call("detail", all_ids[idx], attempt + 1, "ok", "None", t)
           /\ IF ae_flush_due(b, idx)
              THEN /\ pc' = "ae_post"
                   /\ stats' = st
                   /\ posting_batch' = b
                   /\ attempt' = 0
                   /\ idx' = idx
              ELSE AE_NextRecord(st, b)
    /\ UNCHANGED <<AEFrame, animal_ids, page, all_ids, sink>>
    /\ processed' = processed \cup {all_ids[idx]}
    /\ UNCHANGED <<last_ids, failed_posts>>

\* Lines 177-178: the batch is too large (ValueError); the transport is not
\* called, and the handler of the loop gets the error.
AE_PostRejected ==
    /\ pc = "ae_post"
    /\ ae_exceeds_maximum(posting_batch)
    /\ LET e == "ValueError"
           t == Tenacity(e, 1, retry_if_exception_type(e), TRUE)
       IN  /\ last' = Call("post", Len(posting_batch), 0, "none", e, t)
           /\ AE_RaisedInLoop(t.exc)
    /\ UNCHANGED <<AEFrame, animal_ids, page, all_ids, sink>>
    /\ failed_posts' = failed_posts + 1
    /\ UNCHANGED <<last_ids, processed>>

AE_PostRetry ==
    /\ pc = "ae_post"
    /\ ~ae_exceeds_maximum(posting_batch)
    /\ \E r \in OtherResponses :
          LET t == ae_request(r, attempt + 1)
          IN  /\ t.result = "retry"
              /\ last' = Call("post", Len(posting_batch), attempt + 1, r,
                              TransportExc(r), t)
    /\ attempt' = attempt + 1
    /\ UNCHANGED <<AEFrame, pc, stats, animal_ids, page, all_ids, idx,
                   posting_batch, sink>>
    /\ UNCHANGED <<last_ids, processed, failed_posts>>

\* post_animals_batch raises inside the loop (line 225): its handler gets it.
AE_PostFails ==
    /\ pc = "ae_post"
    /\ ~ae_exceeds_maximum(posting_batch)
    /\ \E r \in OtherResponses :
          LET t == ae_request(r, attempt + 1)
          IN  /\ t.result = "raise"
              /\ last' = Call("post", Len(posting_batch), attempt + 1, r,
                              TransportExc(r), t)
              /\ AE_RaisedInLoop(t.exc)
    /\ UNCHANGED <<AEFrame, animal_ids, page, all_ids, sink>>
    /\ failed_posts' = failed_posts + 1
    /\ UNCHANGED <<last_ids, processed>>

\* Lines 225-228: the sink accepts the batch; it is counted and cleared.
AE_PostOk ==
    /\ pc = "ae_post"
    /\ ~ae_exceeds_maximum(posting_batch)
    /\ last' = Call("post", Len(posting_batch), attempt + 1, "ok", "None",
                    ae_request("ok", attempt + 1))
    /\ sink' = Append(sink, posting_batch)
    /\ AE_NextRecord([stats EXCEPT !.animals_posted = @ + Len(posting_batch),
                                   !.batches_posted = @ + 1], <<>>)
    /\ UNCHANGED <<AEFrame, animal_ids, page, all_ids>>
    /\ UNCHANGED <<last_ids, processed, failed_posts>>

NextAE ==
    \/ AE_Start
    \/ AE_FetchPageRetry
    \/ AE_FetchPageFails
    \/ AE_FetchPageOk
    \/ AE_DetailRetry
    \/ AE_DetailFails
    \/ AE_DetailOk
    \/ AE_PostRejected
    \/ AE_PostRetry
    \/ AE_PostFails
    \/ AE_PostOk

SpecAE == InitAE /\ [][NextAE]_vars

(***************************************************************************)
(* The identifier fetch alone, of both pipelines, over listings of several *)
(* pages: fetch_paginated_animals as run_etl_process calls it, and         *)
(* fetch_all_animal_ids of animal_etl.py.                                  *)
(* A page request of fetch_paginated_animals that fails for good restarts  *)
(* the fetch or fails the run: those steps are part of Spec.               *)
(***************************************************************************)
\* The largest number of pages with items in a listing.
MaxPages == 2

\* The items of one page: one identifier, or an identifier and identifier 1
\* (so that pages repeat identifiers, within a page and across pages).
PageItemLists ==
    {<<i>> : i \in 1..MaxIds} \cup {<<i, 1>> : i \in 1..MaxIds}

\* A listing whose pages carry the given items. total_pages is the number
\* of pages with items, and the pages carry it all ("all"), or the first
\* page alone ("first"), or none ("absent": the listing ends with the empty
\* page).
Paginated(items, mode) ==
    [p \in 1..Len(items) |->
        Page(items[p], IF mode = "all" \/ (mode = "first" /\ p = 1)
                       THEN {Len(items)} ELSE {})]

PageListings ==
    {Paginated(items, mode) :
        items \in UNION {[1..n -> PageItemLists] : n \in 0..MaxPages},
        mode \in {"all", "first", "absent"}}

InitPages ==
    /\ pages \in PageListings
    /\ batch_size = BATCH_SIZE
    /\ pc \in {"idle", "ae_idle"}
    /\ etl_stats = reset
    /\ etl_log = [status |-> "none", total_animals_fetched |-> 0,
                  total_animals_processed |-> 0, total_animals_sent |-> 0]
    /\ stats = ETLStats
    /\ animal_ids = <<>>
    /\ page = 1
    /\ total_pages = {}
    /\ fp_attempt = 0
    /\ attempt = 0
    /\ all_ids = <<>>
    /\ idx = 0
    /\ posting_batch = <<>>
    /\ db_batch = <<>>
    /\ sink = <<>>
    /\ db = {}
    /\ api_error_log = <<>>
    /\ last = NoCall
    /\ last_ids = NoCall
    /\ processed = {}
    /\ failed_posts = 0
    /\ job = [status |-> "none"]

NextPages ==
    \/ RunStart
    \/ FetchPageRetry
    \/ FetchPageOk
    \/ AE_Start
    \/ AE_FetchPageRetry
    \/ AE_FetchPageFails
    \/ AE_FetchPageOk

\* Every transport call is answered in the end, and the program takes its
\* next step.
SpecPages == InitPages /\ [][NextPages]_vars /\ WF_vars(NextPages)

(***************************************************************************)
(* The identifier fetch of run_etl_process over a listing of MaxPages      *)
(* pages, a page request failing on any page: the decorator of             *)
(* fetch_paginated_animals (72-76) runs the body again, from line 82.      *)
(***************************************************************************)
InitRestart ==
    /\ InitPages
    /\ pc = "idle"
    /\ \E mode \in {"all", "first", "absent"} :
          pages = Paginated([p \in 1..MaxPages |-> <<p>>], mode)

\* The listing request fails with an error fetch_page_with_retry does not
\* retry (a timeout, a connection error, a 4xx status), on whatever page.
FetchPageFailsAnywhere ==
    /\ pc = "fetch_page"
    /\ \E r \in {"timeout", "connerr", "h4xx"} :
          LET t == fetch_page_with_retry(r, attempt + 1)
          IN  /\ t.result = "raise"
              /\ PaginationRaises(r, t.exc)

NextRestart ==
    \/ RunStart
    \/ FetchPageRetry
    \/ FetchPageFailsAnywhere
    \/ FetchPageMalformed
    \/ FetchPageOk

SpecRestart == InitRestart /\ [][NextRestart]_vars

(***************************************************************************)
(* Two runs started through ETLRunView at about the same time: post()      *)
(* starts one thread per request (views.py 30-31), each thread executes    *)
(* run_etl_process, and both work on the one module-level etl_stats        *)
(* (etl_service.py 69). The locals of run_etl_process and of               *)
(* fetch_paginated_animals are one per thread: here pc, page, animal_ids,  *)
(* total_pages, all_ids, idx, posting_batch, processed, etl_log and job    *)
(* are functions of the thread. The threads interleave between statements; *)
(* the transport calls of this specification all succeed, but for a 404    *)
(* on a detail fetch.                                                      *)
(***************************************************************************)
Threads == {"first", "second"}

\* What run_etl_background copies from the statistics run_etl_process
\* returned into its job (views.py 51-56).
job_of(st) ==
    [status |-> run_etl_background(st).status,
     total_animals_fetched |-> st.total_animals_found,
     total_animals_processed |-> st.animals_processed,
     total_animals_sent |-> st.animals_posted]

\* etl_stats.animals_processed += 1 by thread t: a load and a store. When
\* another thread is at the same statement, both may load the same value,
\* and the store of the later one then leaves the counter as it is.
animals_processed_after(t) ==
    {etl_stats.animals_processed + 1}
        \cup IF \E u \in Threads \ {t} : pc[u] = "get_animal_details"
             THEN {etl_stats.animals_processed} ELSE {}

InitThreads ==
    /\ pages \in Listings
    /\ batch_size \in 1..MAX_BATCH_SIZE
    /\ pc = [t \in Threads |-> "idle"]
    /\ etl_stats = reset
    /\ etl_log = [t \in Threads |-> [status |-> "none"]]
    /\ job = [t \in Threads |-> [status |-> "none"]]
    /\ stats = ETLStats
    /\ animal_ids = [t \in Threads |-> <<>>]
    /\ page = [t \in Threads |-> 1]
    /\ total_pages = [t \in Threads |-> {}]
    /\ fp_attempt = 0
    /\ attempt = 0
    /\ all_ids = [t \in Threads |-> <<>>]
    /\ idx = [t \in Threads |-> 0]
    /\ posting_batch = [t \in Threads |-> <<>>]
    /\ db_batch = <<>>
    /\ sink = <<>>
    /\ db = {}
    /\ api_error_log = <<>>
    /\ last = NoCall
    /\ last_ids = NoCall
    /\ processed = [t \in Threads |-> {}]
    /\ failed_posts = 0

ThreadsFrame == <<pages, batch_size, stats, fp_attempt, attempt, db_batch, db,
                  last, last_ids, failed_posts>>

\* views.py 26-31 and etl_service.py 314-321: the job is created, the thread
\* starts, run_etl_process resets the statistics and starts the fetch.
T_RunStart(t) ==
    /\ pc[t] = "idle"
    /\ job' = [job EXCEPT ![t] = [status |-> "running"]]
    /\ etl_log' = [etl_log EXCEPT ![t] = [status |-> "running"]]
    /\ etl_stats' = [reset EXCEPT !.current_step = "Fetching animal list"]
    /\ pc' = [pc EXCEPT ![t] = "fetch_page"]
    /\ UNCHANGED <<ThreadsFrame, animal_ids, page, total_pages, all_ids, idx,
                   posting_batch, sink, api_error_log, processed>>

\* The run of thread t returns st to run_etl_background.
T_Finish(t, st, status) ==
    /\ etl_stats' = st
    /\ etl_log' = [etl_log EXCEPT ![t] = [status |-> status]]
    /\ job' = [job EXCEPT ![t] = job_of(st)]
    /\ pc' = [pc EXCEPT ![t] = "done"]

\* Lines 383-392 for thread t: the loop is through with an identifier.
T_NextRecord(t, st, batch) ==
    /\ idx' = [idx EXCEPT ![t] = @ + 1]
    /\ posting_batch' = [posting_batch EXCEPT ![t] = batch]
    /\ IF idx[t] < Len(all_ids[t])
       THEN /\ pc' = [pc EXCEPT ![t] = "get_animal_details"]
            /\ etl_stats' = st
            /\ UNCHANGED <<etl_log, job>>
       ELSE IF final_flush_due(batch)
            THEN /\ pc' = [pc EXCEPT ![t] = "post_final"]
                 /\ etl_stats' = [st EXCEPT !.current_step = "Posting final batch"]
                 /\ UNCHANGED <<etl_log, job>>
            ELSE LET c == complete(st)
                 IN  T_Finish(t, c, IF c.errors = <<>> THEN "completed"
                                                      ELSE "partial")

\* Lines 89-122 and 321-338 for thread t: a page arrives.
T_FetchPageOk(t) ==
    /\ pc[t] = "fetch_page"
    /\ LET data == ServerPage(page[t])
           tp   == IF data.total_pages = {} THEN total_pages[t]
                                            ELSE data.total_pages
           ids  == IF data.items = <<>> THEN animal_ids[t]
                                        ELSE animal_ids[t] \o data.items
           stop == \/ data.items = <<>>
                   \/ tp # {} /\ tp # {0} /\ \A n \in tp : page[t] >= n
           unique_ids == list_set(ids)
           found == [etl_stats EXCEPT !.total_animals_found = Len(unique_ids)]
       IN  /\ animal_ids' = [animal_ids EXCEPT ![t] = ids]
           /\ total_pages' = [total_pages EXCEPT ![t] = tp]
           /\ IF ~stop
              THEN /\ page' = [page EXCEPT ![t] = @ + 1]
                   /\ UNCHANGED <<pc, etl_stats, etl_log, job, all_ids, idx>>
              ELSE /\ page' = page
                   /\ all_ids' = [all_ids EXCEPT ![t] = unique_ids]
                   /\ IF unique_ids = <<>>
                      THEN /\ T_Finish(t, [found EXCEPT !.current_step = "No data found"],
                                       "completed")
                           /\ idx' = idx
                      ELSE /\ etl_stats' = [found EXCEPT !.current_step = "Processing animals"]
                           /\ pc' = [pc EXCEPT ![t] = "get_animal_details"]
                           /\ idx' = [idx EXCEPT ![t] = 1]
                           /\ UNCHANGED <<etl_log, job>>
    /\ UNCHANGED <<ThreadsFrame, posting_batch, sink, api_error_log, processed>>

\* Lines 342-355 for thread t: the details arrive.
T_DetailOk(t) ==
    /\ pc[t] = "get_animal_details"
    /\ \E n \in animals_processed_after(t) :
          LET pb == Append(posting_batch[t], all_ids[t][idx[t]])
              st == [etl_stats EXCEPT !.animals_processed = n]
          IN  IF flush_due(pb)
              THEN /\ pc' = [pc EXCEPT ![t] = "post_inline"]
                   /\ etl_stats' = [st EXCEPT !.current_step = "Posting batch"]
                   /\ posting_batch' = [posting_batch EXCEPT ![t] = pb]
                   /\ UNCHANGED <<etl_log, job, idx>>
              ELSE T_NextRecord(t, st, pb)
    /\ processed' = [processed EXCEPT ![t] = @ \cup {all_ids[t][idx[t]]}]
    /\ UNCHANGED <<ThreadsFrame, animal_ids, page, total_pages, all_ids, sink,
                   api_error_log>>

\* Lines 366-373 for thread t: the detail fetch is answered 404.
T_DetailNotFound(t) ==
    /\ pc[t] = "get_animal_details"
    /\ LET k == all_ids[t][idx[t]]
           e == get_animal_details("h404", 1).exc
       IN  /\ T_NextRecord(t, record_error(etl_stats, k, e), posting_batch[t])
           /\ api_error_log' = error_event(api_error_log, k, e)
    /\ UNCHANGED <<ThreadsFrame, animal_ids, page, total_pages, all_ids, sink,
                   processed>>

\* Lines 246-250, then 358-361 or 386-392, for thread t: the sink accepts
\* the batch.
T_PostOk(t) ==
    /\ pc[t] \in {"post_inline", "post_final"}
    /\ ~exceeds_maximum(posting_batch[t])
    /\ LET st == [etl_stats EXCEPT !.batches_posted = @ + 1,
                                   !.animals_posted = @ + Len(posting_batch[t])]
       IN  /\ sink' = Append(sink, posting_batch[t])
           /\ IF pc[t] = "post_inline"
              THEN T_NextRecord(t, st, <<>>)
              ELSE /\ LET c == complete(st)
                      IN  T_Finish(t, c, IF c.errors = <<>> THEN "completed"
                                                           ELSE "partial")
                   /\ UNCHANGED <<idx, posting_batch>>
    /\ UNCHANGED <<ThreadsFrame, animal_ids, page, total_pages, all_ids,
                   api_error_log, processed>>

NextThreads ==
    \E t \in Threads :
        \/ T_RunStart(t)
        \/ T_FetchPageOk(t)
        \/ T_DetailOk(t)
        \/ T_DetailNotFound(t)
        \/ T_PostOk(t)

SpecThreads == InitThreads /\ [][NextThreads]_vars

(***************************************************************************)
(* The service run with the page retries of fetch_page_with_retry as the   *)
(* decorator makes them: it has no stop condition, so a page that is       *)
(* answered 5xx is requested again however often that has happened.        *)
(***************************************************************************)
\* The attempt number after one more 5xx answer: past MaxPageAttempts the
\* model counts no further, and MaxPageAttempts and MaxPageAttempts + 1
\* stand in turn for the larger numbers.
next_page_attempt ==
    IF attempt <= MaxPageAttempts THEN attempt + 1 ELSE MaxPageAttempts

FetchPageRetryUncapped ==
    /\ pc = "fetch_page"
    /\ LET n == next_page_attempt
           t == fetch_page_with_retry("h5xx", n)
       IN  /\ t.result = "retry"
           /\ attempt' = n
           /\ last' = Call("page", page, n, "h5xx", TransportExc("h5xx"), t)
    /\ UNCHANGED <<pages, batch_size, pc, etl_stats, etl_log, job, stats,
                   animal_ids, page, total_pages, fp_attempt, all_ids, idx,
                   posting_batch, db_batch, sink, db, api_error_log, last_ids,
                   processed, failed_posts>>

NextUncapped ==
    \/ RunStart
    \/ FetchPageRetryUncapped
    \/ FetchPageFails
    \/ FetchPageMalformed
    \/ FetchPageOk
    \/ DetailRetry
    \/ DetailFails
    \/ DetailOk
    \/ PostRejected
    \/ PostRetry
    \/ PostFails
    \/ PostOk
    \/ PostOkSaveFails

\* The thread of the run is scheduled, and every request is answered in the
\* end, one way or another: the run always takes its next step.
SpecUncapped == Init /\ [][NextUncapped]_vars /\ WF_vars(NextUncapped)

(***************************************************************************)
(* A run in a process that has run before: etl_stats is what the earlier   *)
(* run left in it, and the APIErrorLog table holds the rows of that run.   *)
(* The sink and the Animal table are observed from the start of this run.  *)
(***************************************************************************)
\* What an earlier run can have left: nothing (a new process), a Completed
\* run of two records, a partially completed one, a Failed one whose
\* identifier fetch gave up, and one that found no data.
PreviousRuns ==
    {[etl_stats |-> reset, api_error_log |-> <<>>],
     [etl_stats |-> [total_animals_found |-> 2, animals_processed |-> 2,
                     animals_posted |-> 2, batches_posted |-> 1,
                     errors |-> <<>>, end_time |-> "set",
                     current_step |-> "Completed"],
      api_error_log |-> <<>>],
     [etl_stats |-> [total_animals_found |-> 2, animals_processed |-> 1,
                     animals_posted |-> 1, batches_posted |-> 1,
                     errors |-> <<[scope |-> "animal", id |-> 2,
                                   exc |-> "ETLError_not_found"]>>,
                     end_time |-> "set", current_step |-> "Completed"],
      api_error_log |-> <<[endpoint |-> 2, error_type |-> "ETLError"]>>],
     [etl_stats |-> [total_animals_found |-> 0, animals_processed |-> 0,
                     animals_posted |-> 0, batches_posted |-> 0,
                     errors |-> <<[scope |-> "page", id |-> 1,
                                   exc |-> "ETLError_structure"],
                                  [scope |-> "process", id |-> 0,
                                   exc |-> "ETLError_structure"]>>,
                     end_time |-> "None", current_step |-> "Failed"],
      api_error_log |-> <<>>],
     [etl_stats |-> [total_animals_found |-> 0, animals_processed |-> 0,
                     animals_posted |-> 0, batches_posted |-> 0,
                     errors |-> <<>>, end_time |-> "None",
                     current_step |-> "No data found"],
      api_error_log |-> <<>>]}

InitAgain ==
    /\ pages \in Listings
    /\ batch_size = BATCH_SIZE
    /\ pc = "idle"
    /\ \E prev \in PreviousRuns :
          /\ etl_stats = prev.etl_stats
          /\ api_error_log = prev.api_error_log
    /\ etl_log = [status |-> "none", total_animals_fetched |-> 0,
                  total_animals_processed |-> 0, total_animals_sent |-> 0]
    /\ job = [status |-> "none"]
    /\ stats = ETLStats
    /\ animal_ids = <<>>
    /\ page = 1
    /\ total_pages = {}
    /\ fp_attempt = 0
    /\ attempt = 0
    /\ all_ids = <<>>
    /\ idx = 0
    /\ posting_batch = <<>>
    /\ db_batch = <<>>
    /\ sink = <<>>
    /\ db = {}
    /\ last = NoCall
    /\ last_ids = NoCall
    /\ processed = {}
    /\ failed_posts = 0

SpecAgain == InitAgain /\ [][Next]_vars

(***************************************************************************)
(* transform_animal (etl_service.py 165-214). A Python value is a record   *)
(* with its type: a str holds its characters, a list its elements, an int  *)
(* its number. An animal is a function from its keys to values.            *)
(***************************************************************************)
\* The longest friends string of the model.
MaxLen == 3

\* The characters of the model: two letters, white space, the delimiter.
Whitespace == {" "}
Chars == {"a", "b", ","} \cup Whitespace

PyNone == [type |-> "NoneType"]
\* A str: its characters, and in `iso` what it says when it is an ISO-8601
\* text (none for any other str).
PyStr(chars) == [type |-> "str", v |-> chars, iso |-> {}]
PyList(elems) == [type |-> "list", v |-> elems]
PyInt(n) == [type |-> "int", v |-> n]

\* bool(x): None, 0, "" and [] are false.
truthy(x) ==
    CASE x.type = "NoneType" -> FALSE
      [] x.type = "int"      -> x.v # 0
      [] x.type = "str"      -> x.v # <<>>
      [] x.type = "list"     -> x.v # <<>>
      [] OTHER               -> TRUE

\* str.lstrip, str.rstrip and str.strip, on the characters.
RECURSIVE lstrip(_)
lstrip(cs) ==
    IF cs # <<>> /\ Head(cs) \in Whitespace THEN lstrip(Tail(cs)) ELSE cs

RECURSIVE rstrip(_)
rstrip(cs) ==
    IF cs # <<>> /\ cs[Len(cs)] \in Whitespace
    THEN rstrip(SubSeq(cs, 1, Len(cs) - 1)) ELSE cs

strip(cs) == rstrip(lstrip(cs))

\* str.split(","): the pieces between the delimiters, empty ones included.
RECURSIVE split(_)
split(cs) ==
    IF \A i \in 1..Len(cs) : cs[i] # ","
    THEN <<cs>>
    ELSE LET i == CHOOSE j \in 1..Len(cs) :
                      cs[j] = "," /\ \A k \in 1..(j - 1) : cs[k] # ","
         IN  <<SubSeq(cs, 1, i - 1)>> \o split(SubSeq(cs, i + 1, Len(cs)))

\* A comprehension that keeps the empty pieces.
friends_list_unfiltered(cs) ==
    [i \in 1..Len(split(cs)) |-> PyStr(strip(split(cs)[i]))]

\* Lines 181-183: [f.strip() for f in friends.split(",") if f.strip()]
friends_list(cs) ==
    LET pieces == split(cs)
        kept   == SelectSeq(pieces, LAMBDA f : strip(f) # <<>>)
    IN  [i \in 1..Len(kept) |-> PyStr(strip(kept[i]))]

\* A transform that empties a friends value that is no str.
transform_friends_str_only(animal) ==
    IF "friends" \in DOMAIN animal /\ truthy(animal["friends"])
          /\ animal["friends"].type = "str"
    THEN PyList(friends_list(animal["friends"].v))
    ELSE PyList(<<>>)

\* Lines 179-186: the friends of the transformed record.
transform_friends(animal) ==
    IF "friends" \in DOMAIN animal /\ truthy(animal["friends"])
    THEN IF animal["friends"].type = "str"
         THEN PyList(friends_list(animal["friends"].v))
         ELSE animal["friends"]
    ELSE PyList(<<>>)

\* The number that tells a timestamp in milliseconds from one in seconds.
\* The source has 1e10 (line 193); the model scales it down.
MS_THRESHOLD == 10

\* Line 194: timestamp / 1000.
MS_PER_SECOND == 1000

\* A datetime is the instant it denotes, in milliseconds since the epoch
\* (an aware datetime in UTC). An ISO-8601 text says a wall clock reading
\* `local` (milliseconds) and an offset: none ("naive"), "Z", or hours and
\* minutes ahead of UTC; its characters are not spelled out.
MS_PER_HOUR == 3600000

Offsets == {"naive", "Z", "+00:00", "+02:00", "-05:00"}

OffsetHours(offset) ==
    CASE offset = "+02:00" -> 2
      [] offset = "-05:00" -> 0 - 5
      [] OTHER             -> 0

IsoText(local, offset) ==
    [type |-> "str", v |-> <<"T">>,
     iso |-> {[local |-> local, offset |-> offset]}]

\* datetime.fromtimestamp(num / den, tz=pytz.UTC)
fromtimestamp(num, den) == (num * MS_PER_SECOND) \div den

\* dt.isoformat() of an aware datetime in UTC.
isoformat(dt) == IsoText(dt, "+00:00")

\* Lines 197-203: fromisoformat(text.replace("Z", "+00:00")), and the
\* result as a datetime in UTC: a naive reading is taken as UTC.
fromisoformat_utc(text) ==
    LET offset == IF text.offset = "Z" THEN "+00:00" ELSE text.offset
    IN  IF offset = "naive" THEN text.local
        ELSE text.local - OffsetHours(offset) * MS_PER_HOUR

\* Line 188: "born_at" in transformed and transformed["born_at"]
born_at_given(animal) ==
    "born_at" \in DOMAIN animal /\ truthy(animal["born_at"])

\* Lines 188-212: the born_at of the transformed record (the key is there).
transform_born_at(animal) ==
    LET b == animal["born_at"]
    IN  IF ~born_at_given(animal) THEN b
        ELSE IF b.type = "int"
             THEN isoformat(IF b.v > MS_THRESHOLD
                            THEN fromtimestamp(b.v, MS_PER_SECOND)
                            ELSE fromtimestamp(b.v, 1))
        ELSE IF b.type = "str"
             THEN IF b.iso = {} THEN b
                  ELSE isoformat(fromisoformat_utc(CHOOSE text \in b.iso : TRUE))
        ELSE b

\* transform_animal: the dict it returns.
transform_animal(animal) ==
    [k \in DOMAIN animal \cup {"friends"} |->
        CASE k = "friends" -> transform_friends(animal)
          [] k = "born_at" -> transform_born_at(animal)
          [] OTHER         -> animal[k]]

\* A transform_animal that works on its argument.
animal_after_transform_in_place(animal) == transform_animal(animal)

\* Line 177, transformed = animal.copy(): the assignments go to the copy,
\* and the argument is after the call what it was.
animal_after_transform(animal) == animal

(***************************************************************************)
(* One record through lines 342-348 of run_etl_process: the detail fetch   *)
(* returns a raw record, transform_animal is applied to it, and both are   *)
(* buffered.                                                               *)
(***************************************************************************)
\* The strings of at most n characters.
Strings(n) == UNION {[1..k -> Chars] : k \in 0..n}

\* The friends values of the raw records: None, every string up to MaxLen,
\* and lists (what transform_animal makes of a string).
FriendsValues ==
    {PyNone, PyList(<<>>), PyList(<<PyStr(<<"a">>)>>),
     PyList(<<PyStr(<<"b">>), PyStr(<<"a", " ", "b">>)>>)}
        \cup {PyStr(cs) : cs \in Strings(MaxLen)}

\* The integer timestamps: around 0 and around the threshold.
Timestamps == (0 - 1)..(MS_THRESHOLD + 2)

\* The born_at values: None, the empty string, a string that is no date, a
\* list, integer timestamps, and ISO-8601 texts with and without offset.
BornAtValues ==
    {PyNone, PyStr(<<>>), PyStr(<<"a">>), PyList(<<PyInt(1)>>)}
        \cup {PyInt(t) : t \in Timestamps}
        \cup {IsoText(local, offset) :
                 local \in {0, 1500, MS_PER_HOUR}, offset \in Offsets}

\* The raw records: id and name, and friends, born_at and species or not.
RawRecords ==
    LET base == [k \in {"id", "name"} |->
                    IF k = "id" THEN PyInt(1) ELSE PyStr(<<"a">>)]
        with(r, k, vals) == {r} \cup {(k :> x) @@ r : x \in vals}
    IN  UNION {UNION {with(r2, "species", {PyStr(<<"b">>)}) :
                         r2 \in with(r1, "born_at", BornAtValues)} :
                  r1 \in with(base, "friends", FriendsValues)}

InitTransform ==
    /\ pages = Listing(1)
    /\ batch_size = BATCH_SIZE
    /\ pc = "get_animal_details"
    /\ etl_stats = [reset EXCEPT !.total_animals_found = 1,
                                 !.current_step = "Processing animals"]
    /\ etl_log = [status |-> "running", total_animals_fetched |-> 1,
                  total_animals_processed |-> 0, total_animals_sent |-> 0]
    /\ job = [status |-> "running"]
    /\ stats = ETLStats
    /\ animal_ids = <<1>>
    /\ page = 1
    /\ total_pages = {1}
    /\ fp_attempt = 1
    /\ attempt = 0
    /\ all_ids = <<1>>
    /\ idx = 1
    /\ posting_batch = <<>>
    /\ db_batch = <<>>
    /\ sink = <<>>
    /\ db = {}
    /\ api_error_log = <<>>
    /\ last = NoCall
    /\ last_ids = NoCall
    /\ processed = {}
    /\ failed_posts = 0

\* Lines 342-350: get_animal_details returns raw_details (the body of the
\* answer), the record is transformed, buffered for the post and, with the
\* raw record, for the database, and counted.
DetailTransformed ==
    /\ pc = "get_animal_details"
    /\ \E raw_details \in RawRecords :
          LET transformed_details == transform_animal(raw_details)
          IN  /\ last' = Call("detail", all_ids[idx], attempt + 1, raw_details,
                              "None", get_animal_details("ok", attempt + 1))
              /\ posting_batch' = Append(posting_batch, transformed_details)
              /\ db_batch' =
                    Append(db_batch,
                           [raw |-> animal_after_transform(raw_details),
                            transformed |-> transformed_details])
    /\ etl_stats' = [etl_stats EXCEPT !.animals_processed = @ + 1]
    /\ processed' = processed \cup {all_ids[idx]}
    /\ pc' = "transformed"
    /\ UNCHANGED <<pages, batch_size, etl_log, job, stats, animal_ids, page,
                   total_pages, fp_attempt, attempt, all_ids, idx, sink, db,
                   api_error_log, last_ids, failed_posts>>

NextTransform == DetailTransformed

SpecTransform == InitTransform /\ [][NextTransform]_vars

(***************************************************************************)
(* Properties.                                                             *)
(***************************************************************************)
Errors == etl_stats.errors

\* The ids of the records the sink accepted in some batch.
Posted == UNION {Range(sink[b]) : b \in 1..Len(sink)}

\* The step in which get_animal_details raises to the loop.
DetailRaisesStep ==
    pc = "get_animal_details" /\ last'.op = "detail" /\ last'.result = "raise"

\* C1: in etl_service.run_etl_process a failed detail fetch of identifier k is
\* handled inside the loop: the step appends one error entry naming k, the run
\* is not Failed by it and goes on with the identifier after k; and once the
\* run has left the loop, it has been through every identifier of all_ids.
C1_RecordFailureIsCaught ==
    /\ [][DetailRaisesStep =>
            /\ etl_stats'.errors =
                   Append(Errors, [scope |-> "animal", id |-> all_ids[idx],
                                   exc |-> last'.exc])
            /\ etl_stats'.current_step # "Failed"
            /\ etl_log'.status # "failed"
            /\ idx' = idx + 1
            /\ idx < Len(all_ids) => pc' = "get_animal_details"]_vars
    /\ [](pc \in {"post_final", "done"} /\ all_ids # <<>>
             => idx = Len(all_ids) + 1)

\* A run that went on after a failed detail fetch: the record of a later
\* identifier reached the sink, and the run ended partially completed.
C1_Witness ==
    /\ pc = "done"
    /\ etl_log.status = "partial"
    /\ \E i \in 1..Len(Errors) :
          /\ Errors[i].scope = "animal"
          /\ Errors[i].exc \in {"ETLError_not_found", "RetryError"}
          /\ Errors[i].id \notin processed
          /\ \E k \in Posted : k > Errors[i].id

\* The step in which a call of post_animals_batch fails with its retries
\* exhausted.
PostExhaustedStep ==
    /\ Flushing
    /\ last'.op = "post"
    /\ last'.result = "raise"
    /\ last'.attempt = STOP_AFTER_ATTEMPT

\* C2: a batch post that fails with its retries exhausted is fatal to the run,
\* for the inline flush as for the final one (and for every batch size the
\* limit allows): the step is not handled as a record error (no error event,
\* no entry against an animal), no identifier is fetched after it, and the
\* run is Failed.
C2_PostFailureIsFatal ==
    [][PostExhaustedStep /\ batch_size \in 1..MAX_BATCH_SIZE =>
          /\ pc' = "done"
          /\ etl_stats'.current_step = "Failed"
          /\ api_error_log' = api_error_log
          /\ idx' = idx]_vars

\* C3: when a run of etl_service.run_etl_process is Completed, every record
\* counted in animals_processed was part of a batch the sink accepted; the
\* counter counts exactly those records.
C3_CompletedMeansPosted ==
    /\ Cardinality(processed) = etl_stats.animals_processed
    /\ etl_stats.current_step = "Completed" => processed \subseteq Posted

\* A Completed run that needed both flushes: a full batch inline and the
\* remainder after the loop.
C3_Witness ==
    /\ etl_stats.current_step = "Completed"
    /\ batch_size >= 2
    /\ Len(sink) >= 2
    /\ Len(sink[Len(sink)]) < batch_size
    /\ processed = Posted
    /\ processed # {}

\* C4: in animal_etl.run_etl_process, when no call of post_animals_batch
\* failed, no record is left buffered when the run returns: animals_posted
\* equals animals_processed.
C4_NothingLeftBuffered ==
    pc = "ae_done" /\ failed_posts = 0
        => stats.animals_posted = stats.animals_processed

SaveFailed == \E i \in 1..Len(Errors) : Errors[i].exc = "SaveError"

\* C5: with a batch_size between 1 and the limit, and whatever the detail
\* fetches and the posts answer (save_animals_to_db not failing), every call
\* of post_animals_batch by run_etl_process gets a batch of at least one
\* record and at most the limit.
C5_FlushedBatchWithinLimit ==
    Flushing /\ batch_size \in 1..MAX_BATCH_SIZE /\ ~SaveFailed
        => Len(posting_batch) \in 1..MAX_BATCH_SIZE

Counters == <<etl_stats.batches_posted, etl_stats.animals_posted>>

\* C6: post_animals_batch lets a batch of exactly the maximum size through to
\* the transport, and rejects a larger one with the ETLError of the size
\* check: the transport is not called, the call is not tried again, and the
\* posted counters (and what the sink holds) stay as they are.
C6_OversizedBatchRejected ==
    /\ [](last.op = "post" =>
            /\ last.arg > MAX_BATCH_SIZE <=> last.attempt = 0
            /\ last.attempt = 0 =>
                  /\ last.response = "none"
                  /\ last.result = "raise"
                  /\ last.exc = "ETLError_oversize")
    /\ [][Flushing /\ Len(posting_batch) > MAX_BATCH_SIZE =>
            /\ last'.op = "post"
            /\ last'.attempt = 0
            /\ Counters' = Counters
            /\ sink' = sink
            /\ failed_posts' = failed_posts + 1
            /\ attempt' = 0]_vars
    /\ [][Flushing /\ Len(posting_batch) = MAX_BATCH_SIZE =>
            /\ last'.op = "post"
            /\ last'.attempt >= 1
            /\ last'.response \in Responses]_vars

\* A batch larger than the maximum was rejected, after the sink had accepted a
\* batch of exactly the maximum size.
C6_Witness ==
    /\ last.op = "post"
    /\ last.attempt = 0
    /\ last.arg > MAX_BATCH_SIZE
    /\ \E b \in 1..Len(sink) : Len(sink[b]) = MAX_BATCH_SIZE

\* C7: in every network operation (fetch_page_with_retry, get_animal_details,
\* post_animals_batch) a 4xx response is permanent: the call it answers raises
\* to its caller after this transport call, without another attempt (in a run
\* with a batch size the limit allows).
C7_ClientErrorNotRetried ==
    last.response \in {"h404", "h4xx"} /\ batch_size \in 1..MAX_BATCH_SIZE
        => last.result = "raise"

\* C8: in every network operation a timeout, a connection error and a 5xx
\* response are transient: the operation is tried again unless the attempt was
\* the last one its decorator allows (for a listing page, tried again by
\* fetch_page_with_retry or by the decorator of fetch_paginated_animals), in
\* a run with a batch size the limit allows.
C8_TransientIsRetried ==
    /\ last.response \in {"timeout", "connerr", "h5xx"}
    /\ batch_size \in 1..MAX_BATCH_SIZE
    /\ last.op \in {"detail", "post"} => last.attempt < STOP_AFTER_ATTEMPT
    /\ last.op = "page" /\ last.result = "raise"
          => last_ids.attempt < STOP_AFTER_ATTEMPT
    => \/ last.result = "retry"
       \/ last.op = "page" /\ last_ids.result = "retry"

\* C9: one call of get_animal_details or post_animals_batch makes at most 5
\* transport attempts: a call in progress has made fewer than 5, and a 5th
\* attempt that fails makes the call raise.
C9_AtMostFiveAttempts ==
    /\ pc \in {"get_animal_details", "post_inline", "post_final"}
          => attempt < STOP_AFTER_ATTEMPT
    /\ last.op \in {"detail", "post"} =>
          /\ last.attempt <= STOP_AFTER_ATTEMPT
          /\ last.attempt = STOP_AFTER_ATTEMPT /\ last.body_exc # "None"
                => last.result = "raise"

\* Both calls gave up after a 5th failed attempt: post_animals_batch just now,
\* get_animal_details for an earlier identifier.
C9_Witness ==
    /\ last.op = "post"
    /\ last.attempt = STOP_AFTER_ATTEMPT
    /\ last.result = "raise"
    /\ \E i \in 1..Len(Errors) :
          /\ Errors[i].scope = "animal"
          /\ Errors[i].exc = "RetryError"
          /\ Errors[i].id \notin processed

\* The latest observations of the decorated calls with a stop condition.
CappedCalls == {c \in {last, last_ids} : c.op \in {"detail", "post", "ids"}}

\* C10: when a retried operation (detail fetch, batch post, identifier fetch)
\* fails on the last attempt its decorator allows, the caller gets the
\* exception that attempt raised (in a run with a batch size the limit
\* allows).
C10_LastErrorReraised ==
    \A c \in CappedCalls :
        /\ batch_size \in 1..MAX_BATCH_SIZE
        /\ c.attempt = STOP_AFTER_ATTEMPT
        /\ c.result = "raise"
        /\ IsRequestException(c.body_exc)
        => c.exc = c.body_exc

\* C11: a 404 answer to a detail fetch makes get_animal_details raise the
\* ETLError "not found" at once, whatever the attempt, without another
\* transport call; in a run the loop handles it as the error of that record
\* (one error entry and one APIErrorLog row of type ETLError) and the step
\* does not make the run Failed.
C11_NotFoundIsRecordError ==
    /\ [](last.op = "detail" /\ last.response = "h404" =>
            /\ last.result = "raise"
            /\ last.exc = "ETLError_not_found")
    /\ [][pc = "get_animal_details" /\ last'.response = "h404" =>
            /\ attempt' = 0
            /\ etl_stats'.errors =
                   Append(Errors, [scope |-> "animal", id |-> all_ids[idx],
                                   exc |-> "ETLError_not_found"])
            /\ api_error_log' =
                   Append(api_error_log, [endpoint |-> all_ids[idx],
                                          error_type |-> "ETLError"])
            /\ etl_stats'.current_step # "Failed"
            /\ etl_log'.status # "failed"]_vars

\* The last identifier's detail fetch was answered 404 on the first attempt,
\* after an earlier record reached the sink: the run ended partially
\* completed.
C11_Witness ==
    /\ pc = "done"
    /\ last.op = "detail"
    /\ last.response = "h404"
    /\ last.attempt = 1
    /\ etl_log.status = "partial"
    /\ sink # <<>>

\* The identifiers the listing names on its pages.
ListedIds == UNION {Range(pages[p].items) : p \in 1..Len(pages)}

\* The identifier fetch is over: it returned or it raised.
FetchEnded == pc \notin {"idle", "ae_idle", "fetch_page", "ae_fetch_page"}

\* The identifier fetch returned its list to run_etl_process.
FetchReturned ==
    \/ pc \in {"get_animal_details", "ae_fetch_details"}
    \/ pc = "done" /\ etl_stats.current_step = "No data found"
    \/ pc = "ae_done" /\ stats.errors = <<>>

\* C12: over a listing of finitely many pages (an empty page after the last
\* one with items, total_pages absent or the true number of pages), the
\* identifier fetch of either pipeline ends; when no page request failed for
\* good it returns, and the list it returns holds every listed identifier
\* exactly once.
C12_PaginationReturnsListedIds ==
    /\ [](FetchReturned =>
            /\ Range(all_ids) = ListedIds
            /\ Len(all_ids) = Cardinality(ListedIds))
    /\ [](FetchEnded /\ etl_stats.errors = <<>> /\ stats.errors = <<>>
            => FetchReturned)
    /\ <>FetchEnded

\* fetch_paginated_animals returned from a listing of two pages that repeat
\* an identifier, within a page and across the pages.
C12_Witness ==
    /\ pc = "get_animal_details"
    /\ Len(pages) = 2
    /\ Len(animal_ids) = 4
    /\ Len(all_ids) = 2
    /\ Range(all_ids) = ListedIds

\* C13: fetch_paginated_animals tries a page whose request failed again
\* until it succeeds: whatever the transport answered, the identifier fetch
\* does not raise to run_etl_process.
C13_PageRetriedUntilSuccess ==
    last_ids.op = "ids" /\ last_ids.response # "ok"
        => last_ids.result # "raise"

\* C14: when the identifier fetch raises to run_etl_process, the run is
\* over and Failed, the exception it raised is the last entry of the error
\* list, as a run-level error, and nothing was done with identifiers: no
\* detail fetch, no post, animals_processed = animals_posted = 0.
C14_IdFetchFailureIsFatal ==
    last_ids.result = "raise" =>
        /\ pc = "done"
        /\ etl_stats.current_step = "Failed"
        /\ etl_log.status = "failed"
        /\ Errors # <<>>
        /\ Errors[Len(Errors)] =
               [scope |-> "process", id |-> 0, exc |-> last_ids.exc]
        /\ last.op = "page"
        /\ processed = {}
        /\ sink = <<>>
        /\ etl_stats.animals_processed = 0
        /\ etl_stats.animals_posted = 0
        /\ etl_log.total_animals_processed = 0
        /\ etl_log.total_animals_sent = 0

\* The identifier fetch gave up after its 5th attempt.
C14_Witness ==
    /\ last_ids.result = "raise"
    /\ last_ids.attempt = STOP_AFTER_ATTEMPT
    /\ last_ids.exc = "RetryError"
    /\ pc = "done"

\* C15: when the identifier fetch returns no identifier, the run ends at
\* once in the "No data found" state: no detail fetch and no post was made,
\* and the run is reported as completed, by its own ETLProcessingLog row and
\* by the job of the view that started it.
C15_EmptySetCompletes ==
    pc = "done" /\ etl_stats.current_step = "No data found" =>
        /\ all_ids = <<>>
        /\ last.op = "page"
        /\ sink = <<>>
        /\ etl_log.status = "completed"
        /\ job.status = "completed"

\* The error entries of a scope: "animal" for the record-level errors,
\* "process" for the run-fatal one.
ErrorsOf(scope) == {i \in 1..Len(Errors) : Errors[i].scope = scope}

\* C16: the status a finished run leaves in its ETLProcessingLog row is
\* 'failed' exactly when a run-fatal error occurred; otherwise it is
\* 'completed' when no error was recorded against an animal and 'partial'
\* when at least one was.
C16_StatusFromFatalAndRecordErrors ==
    pc = "done" =>
        /\ etl_log.status \in {"failed", "completed", "partial"}
        /\ etl_log.status = "failed" <=> ErrorsOf("process") # {}
        /\ etl_log.status = "partial" <=>
               ErrorsOf("process") = {} /\ ErrorsOf("animal") # {}

\* C17: once the step label of a run is Completed or Failed, the end time
\* of the statistics is set and the run is over: nothing changes the label
\* or the end time afterwards.
C17_StatsFinalizedOnTerminalStep ==
    etl_stats.current_step \in {"Completed", "Failed"} =>
        /\ etl_stats.end_time = "set"
        /\ pc = "done"

\* C18: when a call of post_animals_batch fails with its retries exhausted
\* and the run is Failed by it, the statistics keep what the run had
\* counted: total_animals_found and animals_processed as before the failure
\* (animals_processed above 0), animals_posted and batches_posted without
\* the failing batch, which the sink did not get.
C18_FailedRunKeepsStatistics ==
    [][PostExhaustedStep /\ etl_stats'.current_step = "Failed" =>
          /\ etl_stats'.total_animals_found = etl_stats.total_animals_found
          /\ etl_stats'.animals_processed = etl_stats.animals_processed
          /\ etl_stats'.animals_processed > 0
          /\ Counters' = Counters
          /\ sink' = sink
          /\ etl_stats'.animals_posted = Cardinality(Posted) \/ SaveFailed
          /\ etl_log'.total_animals_processed = etl_stats.animals_processed
          /\ etl_log'.total_animals_sent = etl_stats.animals_posted]_vars

\* A run Failed by its final flush after 5 attempts, an earlier batch
\* having been posted and counted.
C18_Witness ==
    /\ pc = "done"
    /\ etl_stats.current_step = "Failed"
    /\ last.op = "post"
    /\ last.attempt = STOP_AFTER_ATTEMPT
    /\ etl_stats.animals_posted > 0
    /\ etl_stats.animals_processed > etl_stats.animals_posted
    /\ etl_stats.total_animals_found = Len(all_ids)

\* ceil(n / b)
CeilDiv(n, b) == (n + b - 1) \div b

\* The b-th of the batches of size `size` that the list ids is cut into.
Chunk(ids, size, b) ==
    SubSeq(ids, (b - 1) * size + 1,
           IF b * size < Len(ids) THEN b * size ELSE Len(ids))

\* C19: a run over N identifiers in which no call failed (nothing is in the
\* error list), with a batch size B the limit allows, ends Completed; the
\* sink got ceil(N/B) batches, which are all_ids cut into runs of B records
\* (the last one the remainder), each once and in order; found, processed
\* and posted are N and batches_posted is ceil(N/B).
C19_AllSucceedPostsCeilBatches ==
    /\ pc = "done"
    /\ all_ids # <<>>
    /\ Errors = <<>>
    /\ batch_size \in 1..MAX_BATCH_SIZE
    => LET N == Len(all_ids)
           B == batch_size
       IN  /\ etl_stats.current_step = "Completed"
           /\ etl_log.status = "completed"
           /\ etl_stats.total_animals_found = N
           /\ etl_stats.animals_processed = N
           /\ etl_stats.animals_posted = N
           /\ etl_stats.batches_posted = CeilDiv(N, B)
           /\ Len(sink) = CeilDiv(N, B)
           /\ \A b \in 1..Len(sink) : sink[b] = Chunk(all_ids, B, b)

\* Three identifiers and a batch size of two: a full batch and a remainder.
C19_Witness ==
    /\ pc = "done"
    /\ Errors = <<>>
    /\ batch_size = 2
    /\ all_ids = <<1, 2, 3>>
    /\ sink = <<(<<1, 2>>), (<<3>>)>>
    /\ etl_stats.batches_posted = 2

\* C20: when the loop over all_ids has ended (in a run with a batch size the
\* limit allows and no failing save_animals_to_db), there is one error entry
\* and one APIErrorLog row for each identifier whose processing failed and
\* none for an identifier counted in animals_processed, so that
\* total_animals_found = animals_processed + the number of record errors.
C20_OneErrorPerFailedRecord ==
    /\ pc \in {"post_final", "done"}
    /\ all_ids # <<>>
    /\ idx = Len(all_ids) + 1
    /\ batch_size \in 1..MAX_BATCH_SIZE
    /\ ~SaveFailed
    => /\ Len(api_error_log) = Cardinality(ErrorsOf("animal"))
       /\ \A i \in ErrorsOf("animal") : Errors[i].id \notin processed
       /\ \A i, j \in ErrorsOf("animal") : Errors[i].id = Errors[j].id => i = j
       /\ etl_stats.total_animals_found =
              etl_stats.animals_processed + Cardinality(ErrorsOf("animal"))

\* C21: the statistics of a run are written by the thread of that run
\* alone, also when ETLRunView started a second run at the same time: what
\* a run returns to run_etl_background counts the records of that run, so
\* the job's total_animals_processed is the number of records its own run
\* processed.
C21_StatisticsSingleWriter ==
    \A t \in Threads :
        pc[t] = "done" =>
            job[t].total_animals_processed = Cardinality(processed[t])

\* C22: every run reaches a terminal step (Completed, No data found or
\* Failed) and returns its statistics, whatever the source and the sink
\* answer.
C22_RunTerminates ==
    <>(/\ pc = "done"
       /\ etl_stats.current_step \in {"Completed", "No data found", "Failed"})

\* C23: run_etl_process resets the statistics when it starts, whatever an
\* earlier run left in them: reset gives zero counters, no error, no end
\* time and the step Initializing; the first step of a run leaves nothing
\* else in the statistics but its own step label; and throughout the run
\* the statistics count this run alone.
C23_StatsResetAtRunStart ==
    /\ [][pc = "idle" /\ pc' # "idle" =>
            /\ reset = [total_animals_found |-> 0, animals_processed |-> 0,
                        animals_posted |-> 0, batches_posted |-> 0,
                        errors |-> <<>>, end_time |-> "None",
                        current_step |-> "Initializing"]
            /\ [etl_stats' EXCEPT !.current_step = "Initializing"] = reset]_vars
    /\ [](pc # "idle" =>
            /\ etl_stats.animals_processed = Cardinality(processed)
            /\ etl_stats.batches_posted = Len(sink)
            /\ etl_stats.total_animals_found \in {0, Len(all_ids)}
            /\ etl_stats.end_time = "set" => etl_stats.current_step = "Completed"
            /\ Cardinality(ErrorsOf("process")) <= 1)

\* A run without any error has Completed in a process whose earlier run had
\* left an error (its APIErrorLog row is still there).
C23_Witness ==
    /\ pc = "done"
    /\ api_error_log # <<>>
    /\ Errors = <<>>
    /\ etl_stats.current_step = "Completed"
    /\ etl_stats.animals_processed = Len(all_ids)

\* The record the detail fetch returned and what transform_animal made of it.
RawDetails == last.response
TransformedDetails == posting_batch[1]

\* The part of a piece from its first to its last character that is no
\* white space.
Trimmed(piece) ==
    LET solid == {i \in 1..Len(piece) : piece[i] \notin Whitespace}
    IN  IF solid = {} THEN <<>>
        ELSE SubSeq(piece, CHOOSE i \in solid : \A j \in solid : i <= j,
                           CHOOSE i \in solid : \A j \in solid : i >= j)

\* The pieces the delimiters cut a string into, trimmed, in their order,
\* those left out that hold nothing but white space.
TrimmedPieces(cs) ==
    LET cuts == Ascending({0, Len(cs) + 1} \cup {i \in 1..Len(cs) : cs[i] = ","})
        all  == [i \in 1..(Len(cuts) - 1) |->
                    Trimmed(SubSeq(cs, cuts[i] + 1, cuts[i + 1] - 1))]
    IN  SelectSeq(all, LAMBDA piece : piece # <<>>)

\* C24: of a friends string transform_animal makes the list of its
\* comma-separated pieces, each trimmed of surrounding white space, in
\* their order and without the pieces that are empty or white space only;
\* without friends, or with None or the empty string, the list is empty.
C24_FriendsSplitTrimmed ==
    pc = "transformed" =>
        LET fr == TransformedDetails["friends"]
        IN  /\ "friends" \notin DOMAIN RawDetails => fr = PyList(<<>>)
            /\ "friends" \in DOMAIN RawDetails =>
                  LET given == RawDetails["friends"]
                  IN  /\ given.type = "NoneType" => fr = PyList(<<>>)
                      /\ given.type = "str" =>
                            /\ fr.type = "list"
                            /\ Len(fr.v) = Len(TrimmedPieces(given.v))
                            /\ \A i \in 1..Len(fr.v) :
                                  fr.v[i] = PyStr(TrimmedPieces(given.v)[i])
                            /\ given.v = <<>> => fr.v = <<>>

\* " a," became ["a"].
C24_Witness ==
    /\ pc = "transformed"
    /\ "friends" \in DOMAIN RawDetails
    /\ RawDetails["friends"].type = "str"
    /\ RawDetails["friends"].v = <<" ", "a", ",">>
    /\ TransformedDetails["friends"].v = <<PyStr(<<"a">>)>>

\* C25: an integer born_at t is read as milliseconds when it is greater
\* than the threshold and as seconds otherwise, and transform_animal puts in
\* its place the ISO-8601 text of that instant in UTC, ending in "+00:00".
C25_IntegerTimestampToUTC ==
    (/\ pc = "transformed"
     /\ "born_at" \in DOMAIN RawDetails
     /\ RawDetails["born_at"].type = "int") =>
        LET t       == RawDetails["born_at"].v
            instant == IF t > MS_THRESHOLD THEN t ELSE t * MS_PER_SECOND
        IN  /\ TransformedDetails["born_at"].type = "str"
            /\ TransformedDetails["born_at"].iso =
                  {[local |-> instant, offset |-> "+00:00"]}

\* C26: transform_animal is idempotent: applied to the record it
\* returned it returns that record again; a friends value that is a list
\* already is left as it is, and a born_at text in UTC with "+00:00" stays
\* the same text.
C26_TransformIdempotent ==
    pc = "transformed" =>
        /\ transform_animal(TransformedDetails) = TransformedDetails
        /\ transform_friends(TransformedDetails) = TransformedDetails["friends"]
        /\ ("friends" \in DOMAIN RawDetails
               /\ RawDetails["friends"].type = "list") =>
              TransformedDetails["friends"] = RawDetails["friends"]
        /\ "born_at" \in DOMAIN TransformedDetails =>
              transform_born_at(TransformedDetails) =
                  TransformedDetails["born_at"]

\* "a,b" born at 01:00 +02:00 became ["a", "b"] born at 23:00 UTC the day
\* before; a second application changes nothing.
C26_Witness ==
    /\ pc = "transformed"
    /\ "friends" \in DOMAIN RawDetails
    /\ "born_at" \in DOMAIN RawDetails
    /\ RawDetails["friends"] = PyStr(<<"a", ",", "b">>)
    /\ RawDetails["born_at"] = IsoText(MS_PER_HOUR, "+02:00")
    /\ TransformedDetails["friends"] = PyList(<<PyStr(<<"a">>), PyStr(<<"b">>)>>)
    /\ TransformedDetails["born_at"] = IsoText(0 - MS_PER_HOUR, "+00:00")
    /\ transform_animal(TransformedDetails) = TransformedDetails

\* C27: transform_animal changes friends and born_at only: the record it
\* returns has the keys of its argument and friends, every other key with
\* the value the argument has, and the argument is after the call what it
\* was before.
C27_OtherFieldsUntouched ==
    pc = "transformed" =>
        /\ DOMAIN TransformedDetails = DOMAIN RawDetails \cup {"friends"}
        /\ \A k \in DOMAIN RawDetails \ {"friends", "born_at"} :
              TransformedDetails[k] = RawDetails[k]
        /\ db_batch[1].raw = RawDetails
        /\ db_batch[1].transformed = TransformedDetails

\* A record with a species, a friends string and an integer born_at: both
\* are converted, the species is kept, and the raw record still holds the
\* string and the integer.
C27_Witness ==
    /\ pc = "transformed"
    /\ DOMAIN RawDetails = {"id", "name", "friends", "born_at", "species"}
    /\ RawDetails["friends"] = PyStr(<<"a", ",", "b">>)
    /\ RawDetails["born_at"] = PyInt(1)
    /\ TransformedDetails["species"] = PyStr(<<"b">>)
    /\ TransformedDetails["friends"].type = "list"
    /\ TransformedDetails["born_at"] = IsoText(MS_PER_SECOND, "+00:00")
    /\ db_batch[1].raw["friends"] = PyStr(<<"a", ",", "b">>)
    /\ db_batch[1].raw["born_at"] = PyInt(1)

\* The page ends the listing: it has no items, or it reports a positive
\* total_pages that is not greater than its number.
FinalPage(p) ==
    \/ ServerPage(p).items = <<>>
    \/ \E n \in ServerPage(p).total_pages : n > 0 /\ n <= p

\* C28: fetch_paginated_animals asks fetch_page_with_retry for page 1
\* first and after a page that was returned for the next page, never for a
\* page it has been returned already, and for none after a page without
\* items or one that reports itself the last. (An attempt of
\* fetch_page_with_retry that is retried, or that raised, may be followed
\* by a request for the same page.)
C28_PagesInOrderOnce ==
    [][pc = "fetch_page" =>
          /\ last'.op = "page"
          /\ CASE last.op # "page"       -> last'.arg = 1
               [] last.result = "return" -> /\ last'.arg = last.arg + 1
                                            /\ ~FinalPage(last.arg)
               [] OTHER                  -> last'.arg = last.arg]_vars

\* C29: a call of post_animals_batch changes the posted counters when the
\* POST succeeds and not otherwise: the attempt that is answered with
\* success adds 1 to batches_posted and the length of the batch to
\* animals_posted, be it the first attempt of the call or a later one; an
\* attempt that fails, retried or raised, leaves both as they are, and so
\* does a call rejected for its size. The batches counted are the batches
\* the sink accepted.
C29_PostedCountedOncePerSuccess ==
    [][Flushing =>
          /\ last'.op = "post"
          /\ IF last'.result = "return"
             THEN /\ etl_stats'.batches_posted = etl_stats.batches_posted + 1
                  /\ etl_stats'.animals_posted =
                        etl_stats.animals_posted + Len(posting_batch)
                  /\ sink' = Append(sink, posting_batch)
             ELSE /\ Counters' = Counters
                  /\ sink' = sink
          /\ etl_stats'.batches_posted = Len(sink')]_vars

\* A batch of two records was posted on the third attempt of the call, the
\* first call of the run: one batch and two animals are counted.
C29_Witness ==
    /\ last.op = "post"
    /\ last.result = "return"
    /\ last.attempt = 3
    /\ last.arg = 2
    /\ failed_posts = 0
    /\ Counters = <<1, 2>>
    /\ Len(sink) = 1

\* C30: a flush that fails leaves the pending batch as it is, the same
\* records in the same order, whether post_animals_batch is tried again or
\* raises to run_etl_process; the pending batch changes only by the record
\* appended after its detail fetch, and by being emptied after a POST that
\* was answered with success, which put these records into the sink.
C30_FailedFlushKeepsBatch ==
    [][/\ (Flushing /\ last'.result # "return") =>
              posting_batch' = posting_batch
       /\ posting_batch' # posting_batch =>
             \/ /\ pc = "get_animal_details"
                /\ last'.op = "detail"
                /\ last'.result = "return"
                /\ posting_batch' = Append(posting_batch, all_ids[idx])
             \/ /\ pc = "post_inline"
                /\ last'.op = "post"
                /\ last'.result = "return"
                /\ sink' = Append(sink, posting_batch)
                /\ posting_batch' = <<>>]_vars

\* With batch_size 2 the POST of [1, 2] has failed for good; the loop is at
\* the third identifier and the pending batch is still [1, 2].
C30_Witness ==
    /\ pc = "get_animal_details"
    /\ idx = 3
    /\ last.op = "post"
    /\ last.result = "raise"
    /\ last.arg = 2
    /\ posting_batch = <<1, 2>>
    /\ sink = <<>>

\* C31: throughout a run of etl_service.run_etl_process, whatever the
\* batch_size and whatever the detail fetches, the posts and
\* save_animals_to_db answer, no more animals are counted as posted than as
\* processed, and no more as processed than were found.
C31_PostedProcessedFound ==
    pc \notin {"idle", "fetch_page"} =>
        /\ etl_stats.animals_posted <= etl_stats.animals_processed
        /\ etl_stats.animals_processed <= etl_stats.total_animals_found

\* C32: whatever the batch_size (zero, within the limit, above it) and
\* whatever fails, a batch that post_animals_batch hands to the transport
\* holds at least one record and at most the maximum; so does every batch
\* the sink accepted.
C32_TransportBatchWithinMaximum ==
    /\ (last.op = "post" /\ last.attempt >= 1) =>
          last.arg \in 1..MAX_BATCH_SIZE
    /\ \A b \in 1..Len(sink) : Len(sink[b]) \in 1..MAX_BATCH_SIZE

\* With a batch_size above the maximum, the batch that had grown beyond the
\* maximum was rejected in the loop and again after it, before the transport
\* was called; nothing reached the sink.
C32_Witness ==
    /\ batch_size > MAX_BATCH_SIZE
    /\ pc = "done"
    /\ last.op = "post"
    /\ last.attempt = 0
    /\ Len(posting_batch) > MAX_BATCH_SIZE
    /\ sink = <<>>

\* C33: in a run of etl_service.run_etl_process no record is part of more
\* than one batch the sink accepted (nor twice in one batch), whatever the
\* detail fetches, the posts and save_animals_to_db answer.
C33_NoRecordPostedTwice ==
    /\ \A b \in 1..Len(sink) : \A i, j \in 1..Len(sink[b]) :
          sink[b][i] = sink[b][j] => i = j
    /\ \A b, c \in 1..Len(sink) :
          b # c => Range(sink[b]) \cap Range(sink[c]) = {}

====
